---- MODULE Spec2Model ----
(***************************************************************************)
(* Model of MyPIVXWallet's network layer (network.js: Network and          *)
(* ExplorerNetwork) and of the masternode glue of scripts/global.js.       *)
(*                                                                         *)
(* Every async method is split at its await points: the synchronous part   *)
(* up to the request is one action, and the continuation that runs when    *)
(* the explorer answers (or the request fails) is another.  The variable   *)
(* trace holds, in program order, the observable effects of the last       *)
(* step: events emitted, requests issued, alerts, values returned.         *)
(***************************************************************************)
EXTENDS Integers, Sequences, FiniteSets, Bags

\* ---------------------------------------------------------------- bounds
\* Highest block height the explorer reports.
MaxHeight == 3
\* Highest block height the explorer holds a transaction of the wallet at.
MaxTxHeight == 3
\* Transactions per explorer page (pageSize=500 in the requests).
PageSize == 1
\* Calls of one method that may be awaiting the explorer at the same time.
MaxInFlight == 2

\* cChainParams.current.collateralInSats, scaled down to the model's amounts.
CollateralInSats == 100000

\* chain_params.js COIN: satoshis per coin.
COIN == 100000000

VARIABLES
    enabled,      \* Network._enabled
    masterKey,    \* Network.masterKey
    blocks,       \* ExplorerNetwork.blocks
    arrRewards,   \* ExplorerNetwork.arrRewards
    isSyncing,    \* ExplorerNetwork.isSyncing
    utxoPc,       \* positions of the getUTXOs calls that passed the guards
    blockReqs,    \* getBlockCount calls awaiting the explorer
    rewardReqs,   \* getStakingRewards calls awaiting the explorer
    sendReqs,     \* sendTransaction calls awaiting the explorer
    mempool,      \* global.js mempool: the wallet's UTXO set
    mnStored,     \* localStorage item "masternode"
    mnReqs,       \* calls of global.js awaiting a masternode answer or a popup
    controlPanel, \* doms.domControlMasternode.style.display
    infoReqs,     \* getUTXOFullInfo calls awaiting the explorer
    lastWallet,   \* ExplorerNetwork.lastWallet
    moduleRewards, \* network.js module-level arrRewards, which global.js imports
    topReqs,      \* calls of the top-level getStakingRewards awaiting the explorer
    history,      \* the explorer's transactions of the wallet, newest first
    seqCalls,     \* since arrRewards was last reset, no two getStakingRewards
                  \* calls overlapped and no key change happened during one
    trace         \* effects of the last step, in program order

vars == <<enabled, masterKey, blocks, arrRewards, isSyncing, utxoPc,
          blockReqs, rewardReqs, sendReqs, mempool, mnStored, mnReqs,
          controlPanel, infoReqs, lastWallet, moduleRewards, topReqs, history,
          seqCalls, trace>>

mnVars == <<mnReqs, controlPanel>>

walletVars == <<mempool, mnStored, mnVars>>

infoVars == <<infoReqs, lastWallet>>

rewardVars == <<arrRewards, rewardReqs, seqCalls>>

guiVars == <<moduleRewards, topReqs>>

utxoVars == <<isSyncing, utxoPc>>

\* The state of the network backend, which the masternode functions of
\* global.js leave alone.
networkVars == <<enabled, masterKey, blocks, rewardVars, utxoVars, blockReqs,
                 sendReqs, infoVars, guiVars, history>>

\* ------------------------------------------------------------ master keys
NoKey == [present |-> FALSE, isHD |-> FALSE, isViewOnly |-> FALSE,
          isHardwareWallet |-> FALSE]

Keys == {[present |-> TRUE, isHD |-> FALSE, isViewOnly |-> FALSE, isHardwareWallet |-> FALSE],
         [present |-> TRUE, isHD |-> TRUE, isViewOnly |-> FALSE, isHardwareWallet |-> FALSE],
         [present |-> TRUE, isHD |-> FALSE, isViewOnly |-> TRUE, isHardwareWallet |-> FALSE],
         [present |-> TRUE, isHD |-> TRUE, isViewOnly |-> FALSE, isHardwareWallet |-> TRUE]}

\* localStorage.getItem("masternode") without a stored masternode.
NoMasternode == [present |-> FALSE, collateralTxId |-> 0, outidx |-> 0,
                 walletPrivateKeyPath |-> ""]

\* ------------------------------------------------------------ trace entries
Ev(kind, name, arg, n) ==
    [kind |-> kind, name |-> name, arg |-> arg, arg2 |-> "", n |-> n]

Emit(name, arg) == Ev("emit", name, arg, 0)

Emit2(name, arg, arg2) ==
    [kind |-> "emit", name |-> name, arg |-> arg, arg2 |-> arg2, n |-> 0]

Call(name) == Ev("call", name, "", 0)

Throw(name, message) == Ev("throw", name, message, 0)

Fetch(name, n) == Ev("fetch", name, "", n)

Return(name, arg) == Ev("return", name, arg, 0)

Alert(level) == Ev("alert", level, "", 0)

BoolStr(b) == IF b THEN "true" ELSE "false"

HasEntry(tr, e) == \E i \in 1..Len(tr) : tr[i] = e

Count(tr, kind, name) ==
    Cardinality({i \in 1..Len(tr) : tr[i].kind = kind /\ tr[i].name = name})

\* ------------------------------------------------------ Network.enabled
\* Faulty variant: the event is emitted on every assignment.
SetEnabledTraceAlways(value) == <<Emit("network-toggle", BoolStr(value))>>

\* set enabled(value): emit 'network-toggle' and store only on a change.
SetEnabledTrace(value) ==
    IF value # enabled THEN <<Emit("network-toggle", BoolStr(value))>> ELSE <<>>

SetEnabledValue(value) == IF value # enabled THEN value ELSE enabled

Enable ==
    /\ enabled' = SetEnabledValue(TRUE)
    /\ trace' = <<Call("enable")>> \o SetEnabledTrace(TRUE)
    /\ UNCHANGED <<walletVars, infoVars, masterKey, blocks, rewardVars, utxoVars, blockReqs,
                   sendReqs, history,
                   guiVars>>

Disable ==
    /\ enabled' = SetEnabledValue(FALSE)
    /\ trace' = <<Call("disable")>> \o SetEnabledTrace(FALSE)
    /\ UNCHANGED <<walletVars, infoVars, masterKey, blocks, rewardVars, utxoVars, blockReqs,
                   sendReqs, history,
                   guiVars>>

Toggle ==
    /\ enabled' = SetEnabledValue(~enabled)
    /\ trace' = <<Call("toggle")>> \o SetEnabledTrace(~enabled)
    /\ UNCHANGED <<walletVars, infoVars, masterKey, blocks, rewardVars, utxoVars, blockReqs,
                   sendReqs, history,
                   guiVars>>

\* Faulty variant: the warning is raised on every failure.
ErrorTraceAlways ==
    <<Call("error"), Call("disable")>> \o SetEnabledTrace(FALSE)
    \o <<Alert("warning")>>

\* ExplorerNetwork.error(): disable and warn, only while enabled.
ErrorTrace ==
    <<Call("error")>> \o
    (IF enabled
     THEN <<Call("disable")>> \o SetEnabledTrace(FALSE) \o <<Alert("warning")>>
     ELSE <<>>)

ErrorEnabled == IF enabled THEN SetEnabledValue(FALSE) ELSE enabled

\* ------------------------------------------------- the explorer's history
\* A transaction as blockbook reports it (details=txs).  "A" is an address
\* of the wallet, "S" a cold staker's address, "X" a foreign address.
Out(addresses, value) == [addresses |-> addresses, value |-> value]

\* A cold-stake reward: the staked output carries two addresses.
ColdStakeTx(h) ==
    [txid |-> h, blockTime |-> 60 * h, blockHeight |-> h,
     vout |-> <<Out(<<"CoinStake TX">>, 0), Out(<<"S", "A">>, 5 * COIN)>>,
     vin |-> <<Out(<<"S", "A">>, 3 * COIN)>>]

\* A stake of the wallet's own coins: one address per output.
HotStakeTx(h) ==
    [txid |-> h, blockTime |-> 60 * h, blockHeight |-> h,
     vout |-> <<Out(<<"CoinStake TX">>, 0), Out(<<"A">>, 5 * COIN)>>,
     vin |-> <<Out(<<"A">>, 3 * COIN)>>]

\* An ordinary payment to the wallet.
PlainTx(h) ==
    [txid |-> h, blockTime |-> 60 * h, blockHeight |-> h,
     vout |-> <<Out(<<"A">>, 1 * COIN)>>,
     vin |-> <<Out(<<"X">>, 2 * COIN)>>]

TxKinds == {"none", "cold", "hot", "plain"}

\* Coinstake transactions exist only from the proof-of-stake activation
\* height on, which is above block 1 on every chain of chain_params.js.
TxHeights == 2..MaxTxHeight

TxOf(kind, h) ==
    IF kind = "cold" THEN ColdStakeTx(h)
    ELSE IF kind = "hot" THEN HotStakeTx(h)
    ELSE PlainTx(h)

\* The transactions of an assignment of kinds to heights, newest first.
RECURSIVE HistoryFrom(_, _)
HistoryFrom(f, h) ==
    IF h < 2 THEN <<>>
    ELSE (IF f[h] = "none" THEN <<>> ELSE <<TxOf(f[h], h)>>)
         \o HistoryFrom(f, h - 1)

Histories == {HistoryFrom(f, MaxTxHeight) : f \in [TxHeights -> TxKinds]}

\* A new block holds a transaction of the wallet: the explorer lists it first.
ExplorerNewTx(kind, h) ==
    /\ h > (IF history = <<>> THEN 1 ELSE history[1].blockHeight)
    /\ history' = <<TxOf(kind, h)>> \o history
    /\ trace' = <<Ev("explorer", "new-tx", kind, h)>>
    /\ UNCHANGED <<enabled, masterKey, blocks, rewardVars, utxoVars,
                   blockReqs, sendReqs, walletVars, infoVars,
                   guiVars>>

Min(a, b) == IF a < b THEN a ELSE b

\* The explorer's answer to .../xpub|address/<key>?details=txs&pageSize=..&to=..:
\* the newest PageSize transactions at or below height `to` (0: no limit).
ExplorerPage(to) ==
    LET upTo == SelectSeq(history, LAMBDA tx : to = 0 \/ tx.blockHeight <= to)
    IN  SubSeq(upTo, 1, Min(PageSize, Len(upTo)))

\* ------------------------------------------- ExplorerNetwork.getStakingRewards
\* nHeight: the block height of the last stored reward, 0 without rewards.
LastHeight(rewards) ==
    IF Len(rewards) # 0 THEN rewards[Len(rewards)].blockHeight ELSE 0

\* Faulty variant: the request is bounded by the last stored height itself.
RequestToLastHeight(nHeight) == nHeight

\* The `to` parameter of the request: nHeight ? nHeight - 1 : 0.
RequestTo(nHeight) == IF nHeight # 0 THEN nHeight - 1 ELSE 0

\* mapPaths after the request: the xpub's tokens, or the wallet's address.
MapPaths(isHD) == {"A"}

\* txSum: the values of the entries that hold an address of the wallet and
\* carry exactly two addresses.
RECURSIVE TxSum(_, _)
TxSum(v, mapPaths) ==
    IF v = <<>> THEN 0
    ELSE LET s == Head(v)
             known == {i \in 1..Len(s.addresses) : s.addresses[i] \in mapPaths}
         IN  (IF Cardinality(known) # 0 /\ Len(s.addresses) = 2
              THEN s.value ELSE 0) + TxSum(Tail(v), mapPaths)

RewardOf(tx, mapPaths) ==
    [id |-> tx.txid, time |-> tx.blockTime, blockHeight |-> tx.blockHeight,
     amount |-> (TxSum(tx.vout, mapPaths) - TxSum(tx.vin, mapPaths)) \div COIN]

\* The rewards of a page: coinstakes only, mapped, zero amounts dropped.
PageRewards(transactions, mapPaths) ==
    LET stakes == SelectSeq(transactions,
                            LAMBDA tx : tx.vout[1].addresses[1] = "CoinStake TX")
        mapped == [i \in 1..Len(stakes) |-> RewardOf(stakes[i], mapPaths)]
    IN  SelectSeq(mapped, LAMBDA r : r.amount # 0)

\* Faulty variant: the page replaces the list.
UpdateRewardsReplace(rewards, transactions, mapPaths) ==
    PageRewards(transactions, mapPaths)

\* Faulty variant: the page is put in front of the list.
UpdateRewardsPrepend(rewards, transactions, mapPaths) ==
    PageRewards(transactions, mapPaths) \o rewards

\* this.arrRewards = this.arrRewards.concat(...)
UpdateRewards(rewards, transactions, mapPaths) ==
    rewards \o PageRewards(transactions, mapPaths)

\* A pending call: where it waits, the kind of key and the request's `to`.
RewardReq(stage, isHD, to) == [stage |-> stage, isHD |-> isHD, to |-> to]

One(r) == SetToBag({r})

\* The synchronous start: the guard, nHeight, and the key derivation begun.
GetStakingRewardsCall ==
    IF ~enabled \/ ~masterKey.present
    THEN /\ trace' = <<Call("getStakingRewards"),
                       Return("getStakingRewards", "undefined")>>
         /\ UNCHANGED <<walletVars, infoVars, enabled, masterKey, blocks, rewardVars, utxoVars,
                        blockReqs, sendReqs, history,
                   guiVars>>
    ELSE /\ BagCardinality(rewardReqs) < MaxInFlight
         /\ rewardReqs' = rewardReqs (+)
                One(RewardReq("key", masterKey.isHD,
                              RequestTo(LastHeight(arrRewards))))
         /\ seqCalls' = (seqCalls /\ rewardReqs = EmptyBag)
         /\ trace' = <<Call("getStakingRewards")>>
         /\ UNCHANGED <<walletVars, infoVars, enabled, masterKey, blocks, arrRewards, utxoVars,
                        blockReqs, sendReqs, history,
                   guiVars>>

\* getxpub / getAddress resolved: the request goes out.
GetStakingRewardsFetch(r) ==
    /\ r.stage = "key"
    /\ rewardReqs' = (rewardReqs (-) One(r)) (+) One(RewardReq("fetch", r.isHD, r.to))
    /\ trace' = <<Fetch(IF r.isHD THEN "xpub" ELSE "address", r.to)>>
    /\ UNCHANGED <<walletVars, infoVars, enabled, masterKey, blocks, arrRewards, seqCalls,
                   utxoVars, blockReqs, sendReqs, history,
                   guiVars>>

\* The explorer answered; hasTxs is whether the answer holds `transactions`.
GetStakingRewardsResponse(r, hasTxs) ==
    /\ r.stage = "fetch"
    /\ arrRewards' =
          IF hasTxs
          THEN UpdateRewards(arrRewards, ExplorerPage(r.to), MapPaths(r.isHD))
          ELSE arrRewards
    /\ rewardReqs' = rewardReqs (-) One(r)
    /\ trace' = <<Return("getStakingRewards", "arrRewards")>>
    /\ UNCHANGED <<walletVars, infoVars, enabled, masterKey, blocks, seqCalls, utxoVars,
                   blockReqs, sendReqs, history,
                   guiVars>>

\* The key derivation or the request failed: the call rejects.
GetStakingRewardsFail(r) ==
    /\ rewardReqs' = rewardReqs (-) One(r)
    /\ trace' = <<Throw("getStakingRewards", "")>>
    /\ UNCHANGED <<walletVars, infoVars, enabled, masterKey, blocks, arrRewards, seqCalls,
                   utxoVars, blockReqs, sendReqs, history,
                   guiVars>>

\* ExplorerNetwork.setMasterKey
SetMasterKey(key) ==
    /\ masterKey' = key
    /\ arrRewards' = <<>>
    /\ seqCalls' = (rewardReqs = EmptyBag)
    /\ trace' = <<Call("setMasterKey")>>
    /\ UNCHANGED <<walletVars, infoVars, enabled, blocks, rewardReqs, utxoVars, blockReqs,
                   sendReqs, history,
                   guiVars>>

\* ------------------------------------------------ ExplorerNetwork.getUTXOs
\* Faulty variant: a call starts a fetch although one is running.
GetUTXOsStartsAlways == masterKey.present

\* The guards of getUTXOs: a master key is set and no fetch is running.
GetUTXOsStarts == masterKey.present /\ ~isSyncing

\* The synchronous start of getUTXOs: isSyncing is set, the key derivation
\* (getxpub / getAddress) is awaited.
GetUTXOsSyncing == IF GetUTXOsStarts THEN TRUE ELSE isSyncing

\* utxoPc holds the position of every call that passed the guards.
GetUTXOsPc == IF GetUTXOsStarts THEN utxoPc (+) One("key") ELSE utxoPc

GetUTXOsTrace ==
    IF GetUTXOsStarts THEN <<Call("getUTXOs")>>
    ELSE <<Call("getUTXOs"), Return("getUTXOs", "undefined")>>

GetUTXOsCall ==
    /\ BagCardinality(GetUTXOsPc) <= MaxInFlight
    /\ isSyncing' = GetUTXOsSyncing
    /\ utxoPc' = GetUTXOsPc
    /\ trace' = GetUTXOsTrace
    /\ UNCHANGED <<walletVars, infoVars, enabled, masterKey, blocks, rewardVars,
                   blockReqs, sendReqs, history,
                   guiVars>>

\* The key is derived: the request goes out.
GetUTXOsFetch ==
    /\ BagIn("key", utxoPc)
    /\ utxoPc' = (utxoPc (-) One("key")) (+) One("fetch")
    /\ trace' = <<Fetch("utxo", 0)>>
    /\ UNCHANGED <<walletVars, infoVars, enabled, masterKey, blocks, rewardVars,
                   isSyncing, blockReqs, sendReqs, history,
                   guiVars>>

\* The explorer answered: the 'utxo' event, then finally.
GetUTXOsResponse ==
    /\ BagIn("fetch", utxoPc)
    /\ utxoPc' = utxoPc (-) One("fetch")
    /\ isSyncing' = FALSE
    /\ trace' = <<Emit("utxo", "json"), Return("getUTXOs", "undefined")>>
    /\ UNCHANGED <<walletVars, infoVars, enabled, masterKey, blocks, rewardVars,
                   blockReqs, sendReqs, history,
                   guiVars>>

\* Faulty variant: the flag is cleared at the end of try, not in finally.
GetUTXOsFailSyncingKept == isSyncing

\* finally { this.isSyncing = false } after the catch.
GetUTXOsFailSyncing == FALSE

\* The key derivation or the request failed at position pc: catch, finally.
GetUTXOsFail(pc) ==
    /\ BagIn(pc, utxoPc)
    /\ utxoPc' = utxoPc (-) One(pc)
    /\ isSyncing' = GetUTXOsFailSyncing
    /\ enabled' = ErrorEnabled
    /\ trace' = <<Ev("catch", "getUTXOs", pc, 0)>> \o ErrorTrace
                \o <<Return("getUTXOs", "undefined")>>
    /\ UNCHANGED <<walletVars, infoVars, masterKey, blocks, rewardVars,
                   blockReqs, sendReqs, history,
                   guiVars>>

\* ------------------------------------------ ExplorerNetwork.getUTXOFullInfo
\* A trace entry that carries a value.
EvVal(kind, name, value) ==
    [kind |-> kind, name |-> name, arg |-> "", arg2 |-> "", n |-> 0,
     value |-> value]

\* cUTXO.path of a UTXO the explorer lists for an address (no path).
NoPath == <<>>

\* The UTXOs of the explorer's list that getUTXOFullInfo is called with.
ListedUTXOs ==
    {[txid |-> 7, vout |-> 0, path |-> NoPath],
     [txid |-> 7, vout |-> 1, path |-> <<"m", "44'", "coin'", "0'", "0", "1">>],
     [txid |-> 8, vout |-> 1, path |-> <<"m", "44'", "coin'", "0'", "0", "2">>]}

\* An output of tx-specific: scriptPubKey.type, scriptPubKey.hex, value
\* (given in satoshis: Math.round(value * COIN) is that amount) and n.
ScriptOut(type, nth) ==
    [type |-> type, hex |-> (IF type = "empty" THEN "" ELSE "76a9"),
     value |-> (IF type = "empty" THEN 0 ELSE 2 * COIN), n |-> nth]

\* The explorer's answers to tx-specific: the first output is the empty one
\* of a coinstake or an ordinary one, a second output may follow.
TxSpecifics ==
    {[confirmations |-> c, vout |-> <<ScriptOut(t0, 0)>>] :
        c \in 0..2, t0 \in {"empty", "pubkeyhash"}}
    \cup
    {[confirmations |-> c, vout |-> <<ScriptOut(t0, 0), ScriptOut(t1, 1)>>] :
        c \in 0..2, t0 \in {"empty", "pubkeyhash"},
        t1 \in {"coldstake", "pubkeyhash", "scripthash"}}

\* parseInt of an address index.
ParseInt(str) ==
    CASE str = "0" -> 0 [] str = "1" -> 1 [] str = "2" -> 2

Max(a, b) == IF a > b THEN a ELSE b

\* The path with the coin type of the wallet in its third place.
FullInfoPath(pth, isHardwareWallet) ==
    IF pth = NoPath THEN NoPath
    ELSE [pth EXCEPT ![3] = IF isHardwareWallet THEN "BIP44_TYPE_LEDGER'"
                            ELSE "BIP44_TYPE'"]

\* Faulty variant: one confirmation still counts as pending.
UtxoStatusOneConfirmation(confirmations) ==
    IF confirmations <= 1 THEN "PENDING" ELSE "CONFIRMED"

\* cTx.confirmations < 1 ? Mempool.PENDING : Mempool.CONFIRMED
UtxoStatus(confirmations) ==
    IF confirmations < 1 THEN "PENDING" ELSE "CONFIRMED"

\* new UTXO({...}) of getUTXOFullInfo.
FullInfoUTXO(cUTXO, cTx, cVout, key, cachedBlockCount) ==
    [id |-> cUTXO.txid,
     path |-> FullInfoPath(cUTXO.path, key.isHardwareWallet),
     sats |-> cVout.value,
     script |-> cVout.hex,
     vout |-> cVout.n,
     height |-> cachedBlockCount - (cTx.confirmations - 1),
     status |-> UtxoStatus(cTx.confirmations),
     isDelegate |-> (cVout.type = "coldstake"),
     isReward |-> (cTx.vout[1].hex = "")]

\* What the call returns or throws once the explorer has answered.
FullInfoResult(cUTXO, cTx, key, cachedBlockCount) ==
    IF cUTXO.path # NoPath /\ ~key.present
    THEN Throw("TypeError", "masterKey")
    ELSE IF cUTXO.vout + 1 > Len(cTx.vout)
    THEN Throw("TypeError", "cVout")
    ELSE LET cVout == cTx.vout[cUTXO.vout + 1]
         IN  IF cVout.type # "coldstake" /\ cVout.type # "pubkeyhash"
             THEN Return("getUTXOFullInfo", "null")
             ELSE EvVal("return", "getUTXOFullInfo",
                        FullInfoUTXO(cUTXO, cTx, cVout, key, cachedBlockCount))

\* this.lastWallet = Math.max(parseInt(path[5]), this.lastWallet)
FullInfoLastWallet(cUTXO, key) ==
    IF cUTXO.path # NoPath /\ key.present
    THEN Max(ParseInt(cUTXO.path[6]), lastWallet)
    ELSE lastWallet

\* The request of getUTXOFullInfo goes out.
GetUTXOFullInfoCall(cUTXO) ==
    /\ BagCardinality(infoReqs) < MaxInFlight
    /\ infoReqs' = infoReqs (+) One(cUTXO)
    /\ trace' = <<Call("getUTXOFullInfo"), Fetch("tx-specific", cUTXO.txid)>>
    /\ UNCHANGED <<walletVars, lastWallet, enabled, masterKey, blocks,
                   rewardVars, utxoVars, blockReqs, sendReqs, history,
                   guiVars>>

\* The explorer answered with cTx.
GetUTXOFullInfoResponse(cUTXO, cTx) ==
    /\ BagIn(cUTXO, infoReqs)
    /\ infoReqs' = infoReqs (-) One(cUTXO)
    /\ lastWallet' = FullInfoLastWallet(cUTXO, masterKey)
    /\ trace' = <<EvVal("response", "tx-specific",
                        [cUTXO |-> cUTXO, cTx |-> cTx]),
                  FullInfoResult(cUTXO, cTx, masterKey, blocks)>>
    /\ UNCHANGED <<walletVars, enabled, masterKey, blocks, rewardVars,
                   utxoVars, blockReqs, sendReqs, history,
                   guiVars>>

\* The request failed: nothing catches, the call rejects.
GetUTXOFullInfoFail(cUTXO) ==
    /\ BagIn(cUTXO, infoReqs)
    /\ infoReqs' = infoReqs (-) One(cUTXO)
    /\ trace' = <<Throw("getUTXOFullInfo", "")>>
    /\ UNCHANGED <<walletVars, lastWallet, enabled, masterKey, blocks,
                   rewardVars, utxoVars, blockReqs, sendReqs, history,
                   guiVars>>

\* -------------------------------------------- ExplorerNetwork.getBlockCount
\* The request of getBlockCount goes out.
GetBlockCountCall ==
    /\ blockReqs < MaxInFlight
    /\ blockReqs' = blockReqs + 1
    /\ trace' = <<Call("getBlockCount"), Fetch("api", 0)>>
    /\ UNCHANGED <<walletVars, infoVars, enabled, masterKey, blocks, rewardVars, utxoVars,
                   sendReqs, history,
                   guiVars>>

\* Faulty variant: any height that differs from the cached one is taken.
IsNewBlockDiffers(reported) == reported # blocks

\* backend.blocks > this.blocks
IsNewBlock(reported) == reported > blocks

Response(name, arg, n) == Ev("response", name, arg, n)

\* Faulty variant: the event is emitted before the height is stored.
NewBlockEffectsEmitFirst(reported) ==
    <<Emit("sync-status", "start"), Ev("assign", "blocks", "", reported),
      Call("getUTXOs")>>

\* The body of the if: store the height, emit, call getUTXOs.
NewBlockEffects(reported) ==
    <<Ev("assign", "blocks", "", reported), Emit("sync-status", "start"),
      Call("getUTXOs")>>

\* The explorer answered with backend.blocks = reported.
GetBlockCountResponse(reported) ==
    /\ blockReqs > 0
    /\ blockReqs' = blockReqs - 1
    /\ IsNewBlock(reported) => BagCardinality(GetUTXOsPc) <= MaxInFlight
    /\ IF IsNewBlock(reported)
       THEN /\ blocks' = reported
            /\ isSyncing' = GetUTXOsSyncing
            /\ utxoPc' = GetUTXOsPc
            /\ trace' = <<Response("getBlockCount", "", reported)>>
                        \o NewBlockEffects(reported)
       ELSE /\ trace' = <<Response("getBlockCount", "", reported)>>
            /\ UNCHANGED <<blocks, utxoVars>>
    /\ UNCHANGED <<walletVars, infoVars, enabled, masterKey, rewardVars, sendReqs, history,
                   guiVars>>

\* The request failed: error(), and the exception is thrown on.
GetBlockCountFail ==
    /\ blockReqs > 0
    /\ blockReqs' = blockReqs - 1
    /\ enabled' = ErrorEnabled
    /\ trace' = ErrorTrace \o <<Throw("getBlockCount", "")>>
    /\ UNCHANGED <<walletVars, infoVars, masterKey, blocks, rewardVars, utxoVars, sendReqs,
                   history,
                   guiVars>>

\* global.js refreshChainData: the periodic tick.
RefreshChainData ==
    IF ~enabled
    THEN /\ trace' = <<Call("refreshChainData"), Ev("warn", "offline", "", 0)>>
         /\ UNCHANGED <<walletVars, infoVars, enabled, masterKey, blocks, rewardVars, utxoVars,
                        blockReqs, sendReqs, history,
                   guiVars>>
    ELSE IF ~masterKey.present
    THEN /\ trace' = <<Call("refreshChainData")>>
         /\ UNCHANGED <<walletVars, infoVars, enabled, masterKey, blocks, rewardVars, utxoVars,
                        blockReqs, sendReqs, history,
                   guiVars>>
    ELSE /\ blockReqs < MaxInFlight
         /\ blockReqs' = blockReqs + 1
         /\ trace' = <<Call("refreshChainData"), Call("getBlockCount"),
                       Fetch("api", 0)>>
         /\ UNCHANGED <<walletVars, infoVars, enabled, masterKey, blocks, rewardVars, utxoVars,
                        sendReqs, history,
                   guiVars>>

\* ------------------------------------------ ExplorerNetwork.sendTransaction
\* The explorer's answers to sendtx: a transaction id, a result of another
\* length, or an error without a result (resultLen 0).
SendResponses ==
    {[resultLen |-> 64, error |-> "undefined"],
     [resultLen |-> 10, error |-> "undefined"],
     [resultLen |-> 0, error |-> "rpc error"]}

\* Faulty variant: any result counts as a transaction id.
SendOkAnyResult(resp) == resp.resultLen # 0

\* data.result && data.result.length === 64
SendOk(resp) == resp.resultLen # 0 /\ resp.resultLen = 64

\* The effects of a completed request: the event, then the return value.
SendEffects(resp) ==
    IF SendOk(resp)
    THEN <<Emit("transaction-sent", "true"), Return("sendTransaction", "true")>>
    ELSE <<Emit2("transaction-sent", "false", resp.error),
           Return("sendTransaction", "false")>>

\* A pending sendTransaction call; a call of createMasternode carries the
\* locals of createMasternode that its continuation uses.
SendReq(caller, inputs, nChange, changePath, collateralPath) ==
    [caller |-> caller, inputs |-> inputs, nChange |-> nChange,
     changePath |-> changePath, collateralPath |-> collateralPath]

DirectSend == SendReq("direct", {}, 0, "", "")

\* The request of sendTransaction goes out.
SendTransactionCall ==
    /\ BagCardinality(sendReqs) < MaxInFlight
    /\ sendReqs' = sendReqs (+) One(DirectSend)
    /\ trace' = <<Call("sendTransaction"), Fetch("sendtx", 0)>>
    /\ UNCHANGED <<walletVars, infoVars, enabled, masterKey, blocks, rewardVars, utxoVars,
                   blockReqs, history,
                   guiVars>>

\* The explorer answered a direct call.
SendTransactionResponse(r, resp) ==
    /\ r.caller = "direct"
    /\ sendReqs' = sendReqs (-) One(r)
    /\ trace' = <<Response("sendTransaction", resp.error, resp.resultLen)>>
                \o SendEffects(resp)
    /\ UNCHANGED <<walletVars, infoVars, enabled, masterKey, blocks, rewardVars, utxoVars,
                   blockReqs, history,
                   guiVars>>

\* The request of a direct call failed: error(), nothing is returned.
SendTransactionFail(r) ==
    /\ r.caller = "direct"
    /\ sendReqs' = sendReqs (-) One(r)
    /\ enabled' = ErrorEnabled
    /\ trace' = ErrorTrace \o <<Return("sendTransaction", "undefined")>>
    /\ UNCHANGED <<walletVars, infoVars, masterKey, blocks, rewardVars, utxoVars, blockReqs,
                   history,
                   guiVars>>

\* --------------------------------------------- the abstract class Network
\* The methods a network backend has to provide.
Capabilities == {"getBlockCount", "getUTXOs", "sendTransaction",
                 "getStakingRewards"}

\* The methods of Network.prototype that throw, with their messages.
NetworkStubs ==
    [error |-> "Error must be implemented",
     getBlockCount |-> "getBlockCount must be implemented",
     sentTransaction |-> "sendTransaction must be implemented",
     submitAnalytics |-> "submitAnalytics must be implemented"]

\* The methods of Network.prototype that do not throw.
NetworkMethods == {"enable", "disable", "toggle", "getFee", "setMasterKey"}

\* Calling method m on an instance of a subclass that overrides nothing.
CallOnBareSubclass(m) ==
    IF m \in DOMAIN NetworkStubs THEN Throw("Error", NetworkStubs[m])
    ELSE IF m \in NetworkMethods THEN Return(m, "undefined")
    ELSE Throw("TypeError", "is not a function")

BareSubclassCall(m) ==
    /\ trace' = <<Ev("call-bare", m, "", 0), CallOnBareSubclass(m)>>
    /\ UNCHANGED <<walletVars, infoVars, enabled, masterKey, blocks, rewardVars, utxoVars,
                   blockReqs, sendReqs, history,
                   guiVars>>

\* new Network(masterKey): this.constructor === Network.
ConstructNetwork ==
    /\ trace' = <<Ev("new", "Network", "", 0),
                  Throw("Error", "Initializing virtual class")>>
    /\ UNCHANGED <<walletVars, infoVars, enabled, masterKey, blocks, rewardVars, utxoVars,
                   blockReqs, sendReqs, history,
                   guiVars>>

\* ------------------------------------------------------------ the mempool
UTXO(id, vout, sats, status, path) ==
    [id |-> id, vout |-> vout, sats |-> sats, status |-> status, path |-> path]

\* The UTXOs the explorer may have delivered to the wallet.
UtxoUniverse ==
    {UTXO(1, 0, CollateralInSats, "CONFIRMED", "p1"),
     UTXO(2, 0, CollateralInSats + 5000, "CONFIRMED", "p2"),
     UTXO(3, 1, 4000, "CONFIRMED", "p1"),
     UTXO(4, 0, CollateralInSats + 5000, "PENDING", "p2")}

Paths == {"p1", "p2"}

\* Mempool.getConfirmed
GetConfirmed(mp) == {u \in mp : u.status = "CONFIRMED"}

\* Mempool.autoRemoveUTXO: the UTXO of that outpoint leaves the set.
AutoRemoveUTXO(mp, id, vout) == {u \in mp : ~(u.id = id /\ u.vout = vout)}

\* Mempool.addUTXO
AddUTXO(mp, u) == mp \cup {u}

RECURSIVE SumSats(_)
SumSats(S) ==
    IF S = {} THEN 0
    ELSE LET u == CHOOSE x \in S : TRUE IN u.sats + SumSats(S \ {u})

\* chooseUTXOs: the sets of confirmed UTXOs that cover nValue; none when
\* the selection fails.
ChooseUTXOs(mp, nValue) ==
    {ins \in SUBSET GetConfirmed(mp) : ins # {} /\ SumSats(ins) >= nValue}

\* Network.getFee: 50 satoshis per byte.
GetFee(bytes) == bytes * 50

\* cTx.serialize().length of a transaction with these inputs.
TxBytes(ins) == 10 + 41 * Cardinality(ins)

RECURSIVE Pow2(_)
Pow2(n) == IF n = 0 THEN 1 ELSE 2 * Pow2(n - 1)

RECURSIVE SumPow2(_)
SumPow2(S) ==
    IF S = {} THEN 0
    ELSE LET u == CHOOSE x \in S : TRUE IN Pow2(u.id) + SumPow2(S \ {u})

\* futureTxid: the double hash of the signed transaction, one id per set of
\* inputs and different from the ids of the UTXOs delivered.
FutureTxid(ins) == 100 + SumPow2(ins)

\* ------------------------------------------------ global.js createMasternode
RECURSIVE RemoveInputs(_, _)
RemoveInputs(mp, ins) ==
    IF ins = {} THEN mp
    ELSE LET tx == CHOOSE x \in ins : TRUE
         IN  RemoveInputs(AutoRemoveUTXO(mp, tx.id, tx.vout), ins \ {tx})

\* The mempool after a broadcast: inputs out, change and collateral in.
BroadcastMempool(mp, r) ==
    AddUTXO(AddUTXO(RemoveInputs(mp, r.inputs),
                    UTXO(FutureTxid(r.inputs), 0, r.nChange, "PENDING",
                         r.changePath)),
            UTXO(FutureTxid(r.inputs), 1, CollateralInSats, "PENDING",
                 r.collateralPath))

\* Faulty variant: the mempool is updated whatever sendTransaction returned.
CreateMasternodeMempoolAlways(mp, r, result) == BroadcastMempool(mp, r)

\* if (result) { autoRemoveUTXO of every input; addUTXO of both outputs }
CreateMasternodeMempool(mp, r, result) ==
    IF result THEN BroadcastMempool(mp, r) ELSE mp

\* createMasternode up to the request of sendTransaction.  ins is the
\* selection of chooseUTXOs, the paths are those of getNewAddress.
CreateMasternodeCall(ins, strAddressPath, changeAddressPath) ==
    /\ UNCHANGED <<enabled, masterKey, blocks, rewardVars, utxoVars,
                   blockReqs, walletVars, infoVars, history,
                   guiVars>>
    /\ IF ~masterKey.present
       THEN /\ trace' = <<Call("createMasternode"), Throw("TypeError", "masterKey")>>
            /\ UNCHANGED sendReqs
       ELSE IF masterKey.isViewOnly
       THEN /\ trace' = <<Call("createMasternode"), Alert("warning")>>
            /\ UNCHANGED sendReqs
       ELSE IF ChooseUTXOs(mempool, CollateralInSats) = {}
       THEN /\ trace' = <<Call("createMasternode"), Ev("alert-box", "msg", "", 0)>>
            /\ UNCHANGED sendReqs
       ELSE /\ ins \in ChooseUTXOs(mempool, CollateralInSats)
            /\ LET nFee == GetFee(TxBytes(ins))
                   nChange == SumSats(ins) - (nFee + CollateralInSats)
               IN  IF nChange > 0
                   THEN /\ BagCardinality(sendReqs) < MaxInFlight
                        /\ sendReqs' = sendReqs (+)
                              One(SendReq("createMasternode", ins, nChange,
                                          changeAddressPath, strAddressPath))
                        /\ trace' = <<Call("createMasternode"),
                                      Call("sendTransaction"),
                                      Fetch("sendtx", 0)>>
                   ELSE /\ trace' = <<Call("createMasternode"), Alert("warning")>>
                        /\ UNCHANGED sendReqs

\* The end of createMasternode: the alert, the stored masternode removed.
CreateMasternodeEnd ==
    <<Ev("resume", "createMasternode", "", 0), Alert("success"),
      Ev("removeItem", "masternode", "", 0)>>

\* The explorer answered the broadcast of createMasternode.
CreateMasternodeSent(r, resp) ==
    /\ r.caller = "createMasternode"
    /\ sendReqs' = sendReqs (-) One(r)
    /\ mempool' = CreateMasternodeMempool(mempool, r, SendOk(resp))
    /\ mnStored' = NoMasternode
    /\ trace' = <<Response("sendTransaction", resp.error, resp.resultLen)>>
                \o SendEffects(resp) \o CreateMasternodeEnd
    /\ UNCHANGED <<enabled, masterKey, blocks, rewardVars, utxoVars,
                   blockReqs, mnVars, infoVars, history,
                   guiVars>>

\* The broadcast request failed: sendTransaction returns undefined.
CreateMasternodeSendFail(r) ==
    /\ r.caller = "createMasternode"
    /\ sendReqs' = sendReqs (-) One(r)
    /\ enabled' = ErrorEnabled
    /\ mempool' = CreateMasternodeMempool(mempool, r, FALSE)
    /\ mnStored' = NoMasternode
    /\ trace' = ErrorTrace \o <<Return("sendTransaction", "undefined")>>
                \o CreateMasternodeEnd
    /\ UNCHANGED <<masterKey, blocks, rewardVars, utxoVars, blockReqs,
                   mnVars, infoVars, history,
                   guiVars>>

\* ------------------------------------------------ global.js: masternodes
\* Calls of the masternode functions that may be awaiting at the same time.
MaxPolls == 1

\* A Masternode object, also as the parsed localStorage item: the fields
\* the functions read (mnPrivateKey and addr are passed through unread).
MasternodeOf(u, walletPrivateKeyPath) ==
    [present |-> TRUE, collateralTxId |-> u.id, outidx |-> u.vout,
     walletPrivateKeyPath |-> walletPrivateKeyPath]

\* isMasternodeUTXO(cUTXO, masternode)
IsMasternodeUTXO(cUTXO, cMasternode) ==
    IF cMasternode.present
    THEN cMasternode.collateralTxId = cUTXO.id /\ cUTXO.vout = cMasternode.outidx
    ELSE FALSE

\* The order of the UTXOs in the array of Mempool.getConfirmed().
Before(u, v) == u.id < v.id \/ (u.id = v.id /\ u.vout < v.vout)

\* Array.prototype.find over the UTXOs S: the first one, none for no match.
FindFirst(S) == {u \in S : \A v \in S : v = u \/ Before(u, v)}

\* Array.prototype.findLast
FindLast(S) == {u \in S : \A v \in S : v = u \/ Before(v, u)}

\* A pending call: the function, the await it stands at, its Masternode.
MnReq(fn, stage, mn, fAlert) ==
    [fn |-> fn, stage |-> stage, mn |-> mn, fAlert |-> fAlert]

\* What Masternode.getFullData resolves with: nothing, the data of a
\* masternode in some state, or an answer without the masternode's fields.
MasternodeData ==
    {[present |-> FALSE, status |-> "", hasNetwork |-> FALSE],
     [present |-> TRUE, status |-> "", hasNetwork |-> FALSE]}
    \cup {[present |-> TRUE, status |-> st, hasNetwork |-> TRUE] :
             st \in {"ENABLED", "PRE_ENABLED", "MISSING", "REMOVED", "EXPIRED"}}

\* What Masternode.getStatus resolves with.
MasternodeStatuses == {"ENABLED", "PRE_ENABLED", "MISSING", "REMOVED", ""}

DataName(d) == IF d.present THEN d.status ELSE "null"

\* ----------------------------------------------------- updateMasternodeTab
\* The early returns: no wallet, a Ledger wallet, no confirmed UTXO.
TabReturnsEarly ==
    \/ ~masterKey.present
    \/ masterKey.isHardwareWallet
    \/ GetConfirmed(mempool) = {}

\* The collateral of the stored masternode is not a confirmed UTXO.
CollateralMissing(st) ==
    st.present /\ ~(\E utxo \in GetConfirmed(mempool) : IsMasternodeUTXO(utxo, st))

\* localStorage item "masternode" after the tab ran on the item st.
TabStored(st) ==
    IF TabReturnsEarly THEN st
    ELSE IF CollateralMissing(st) THEN NoMasternode
    ELSE st

\* doms.domControlMasternode.style.display after the tab ran.
TabPanel(st) ==
    IF TabReturnsEarly THEN controlPanel
    ELSE IF TabStored(st).present THEN "block" ELSE "none"

\* cCollaUTXO / fHasCollateral: a confirmed UTXO of the collateral's size.
HasCollateral ==
    \E cUTXO \in GetConfirmed(mempool) : cUTXO.sats = CollateralInSats

\* The poll the tab starts: a record is loaded and a collateral exists.
TabPolls(st) ==
    IF ~TabReturnsEarly /\ HasCollateral /\ TabStored(st).present
    THEN One(MnReq("refreshMasternodeData", "data", TabStored(st), FALSE))
    ELSE EmptyBag

TabTrace(st) ==
    <<Call("updateMasternodeTab")>>
    \o (IF TabReturnsEarly THEN <<Return("updateMasternodeTab", "undefined")>>
        ELSE (IF CollateralMissing(st)
              THEN <<Ev("removeItem", "masternode", "", 0)>> ELSE <<>>)
             \o <<Ev("display", "domControlMasternode", TabPanel(st), 0)>>
             \o (IF TabPolls(st) # EmptyBag
                 THEN <<Call("refreshMasternodeData"),
                        Call("Masternode.getFullData")>>
                 ELSE IF ~masterKey.isHD /\ HasCollateral
                 THEN <<Throw("TypeError", "doms.domccessMasternode")>>
                 ELSE <<>>))

\* updateMasternodeTab up to its first await, run on the stored item st
\* with the pending calls reqs, after the effects `before` of its caller.
RunMasternodeTab(before, st, reqs) ==
    /\ BagCardinality(reqs (+) TabPolls(st)) <= MaxPolls
    /\ mnStored' = TabStored(st)
    /\ controlPanel' = TabPanel(st)
    /\ mnReqs' = reqs (+) TabPolls(st)
    /\ trace' = before \o TabTrace(st)
    /\ UNCHANGED <<networkVars, mempool>>

UpdateMasternodeTab == RunMasternodeTab(<<>>, mnStored, mnReqs)

\* -------------------------------------------------------- destroyMasternode
DestroyMasternode ==
    IF mnStored.present
    THEN RunMasternodeTab(<<Call("destroyMasternode"),
                            Ev("removeItem", "masternode", "", 0),
                            Alert("success")>>, NoMasternode, mnReqs)
    ELSE /\ trace' = <<Call("destroyMasternode")>>
         /\ UNCHANGED <<networkVars, walletVars>>

\* --------------------------------------------------------- importMasternode
\* cCollaUTXO of a legacy wallet, masterUtxo of an HD wallet: none or one.
ImportCollateral(path) ==
    IF masterKey.isHD
    THEN FindLast({u \in GetConfirmed(mempool) : u.path = path})
    ELSE FindFirst({cUTXO \in GetConfirmed(mempool) :
                       cUTXO.sats = CollateralInSats})

\* The Masternode importMasternode builds from the UTXO it found.
ImportedMasternode(u, path) ==
    MasternodeOf(u, IF masterKey.isHD THEN path ELSE "legacy")

\* doms.domMnTxId.value as importMasternode reads it.
Selected(path) == Ev("input", "domMnTxId", path, 0)

\* importMasternode up to the await of getFullData; path is the value of
\* doms.domMnTxId.
ImportMasternode(path) ==
    IF ~masterKey.present
    THEN /\ trace' = <<Call("importMasternode"), Throw("TypeError", "masterKey")>>
         /\ UNCHANGED <<networkVars, walletVars>>
    ELSE IF ImportCollateral(path) = {}
    THEN /\ trace' = <<Call("importMasternode"), Selected(path),
                       IF masterKey.isHD THEN Throw("TypeError", "masterUtxo")
                       ELSE Alert("warning")>>
         /\ UNCHANGED <<networkVars, walletVars>>
    ELSE LET u == CHOOSE x \in ImportCollateral(path) : TRUE
         IN  IF masterKey.isHD /\ u.sats # CollateralInSats
             THEN /\ trace' = <<Call("importMasternode"), Selected(path),
                                Alert("warning")>>
                  /\ UNCHANGED <<networkVars, walletVars>>
             ELSE /\ BagCardinality(mnReqs) < MaxPolls
                  /\ mnReqs' = mnReqs (+)
                        One(MnReq("refreshMasternodeData", "data",
                                  ImportedMasternode(u, path), TRUE))
                  /\ trace' = <<Call("importMasternode"), Selected(path),
                                EvVal("new", "Masternode",
                                      ImportedMasternode(u, path)),
                                Call("refreshMasternodeData"),
                                Call("Masternode.getFullData")>>
                  /\ UNCHANGED <<networkVars, mempool, mnStored, controlPanel>>

\* refreshMasternodeData returned to importMasternode: updateMasternodeTab.
ImportMasternodeTab(r) ==
    /\ r.fn = "importMasternode"
    /\ r.stage = "tab"
    /\ RunMasternodeTab(<<Ev("resume", "importMasternode", "", 0)>>, mnStored,
                        mnReqs (-) One(r))

\* ----------------------------------------------------- refreshMasternodeData
\* The calls that remain once refreshMasternodeData has returned: its caller
\* importMasternode (the only one to pass fAlert) goes on to the tab.
AfterRefresh(r) ==
    IF r.fAlert
    THEN (mnReqs (-) One(r)) (+) One(MnReq("importMasternode", "tab", r.mn, TRUE))
    ELSE mnReqs (-) One(r)

AlertIf(fAlert, level) == IF fAlert THEN <<Alert(level)>> ELSE <<>>

SetItem(mn) == EvVal("setItem", "masternode", mn)

\* Faulty variant: a removed masternode is stored as well.
RefreshStoresRemoved(status) ==
    status = "ENABLED" \/ status = "PRE_ENABLED" \/ status = "REMOVED"

\* status === "ENABLED" || status === "PRE_ENABLED"
RefreshStores(status) == status = "ENABLED" \/ status = "PRE_ENABLED"

\* getFullData resolved with d.
RefreshMasternodeData(r, d) ==
    /\ r.fn = "refreshMasternodeData"
    /\ r.stage = "data"
    /\ UNCHANGED <<networkVars, mempool, controlPanel>>
    /\ LET answer == Ev("response", "getFullData", DataName(d), 0)
       IN
       IF ~d.present \/ (d.status # "MISSING" /\ ~d.hasNetwork)
       THEN /\ mnReqs' = mnReqs (-) One(r)
            /\ trace' = <<answer, Throw("TypeError", "cMasternodeData")>>
            /\ UNCHANGED mnStored
       ELSE IF d.status = "MISSING"
       THEN IF ~masterKey.present
            THEN /\ mnReqs' = mnReqs (-) One(r)
                 /\ trace' = <<answer, Throw("TypeError", "masterKey")>>
                 /\ UNCHANGED mnStored
            ELSE IF ~masterKey.isViewOnly
            THEN /\ mnReqs' = (mnReqs (-) One(r)) (+)
                       One(MnReq("refreshMasternodeData", "start", r.mn, r.fAlert))
                 /\ trace' = <<answer, Alert("warning"), Call("Masternode.start")>>
                 /\ UNCHANGED mnStored
            ELSE /\ mnReqs' = AfterRefresh(r)
                 /\ trace' = <<answer, Return("refreshMasternodeData", "data")>>
                 /\ UNCHANGED mnStored
       ELSE IF RefreshStores(d.status)
       THEN /\ mnReqs' = AfterRefresh(r)
            /\ mnStored' = r.mn
            /\ trace' = <<answer>> \o AlertIf(r.fAlert, "success")
                        \o <<SetItem(r.mn), Return("refreshMasternodeData", "data")>>
       ELSE /\ mnReqs' = AfterRefresh(r)
            /\ trace' = <<answer>> \o AlertIf(r.fAlert, "warning")
                        \o <<Return("refreshMasternodeData", "data")>>
            /\ UNCHANGED mnStored

\* Faulty variant: the record is stored whatever start() answered.
StartStoresAlways(started) == TRUE

\* if (started) { ... localStorage.setItem(...) }
StartStores(started) == started

\* cMasternode.start() of refreshMasternodeData resolved.
RefreshMasternodeStarted(r, started) ==
    /\ r.fn = "refreshMasternodeData"
    /\ r.stage = "start"
    /\ mnReqs' = AfterRefresh(r)
    /\ mnStored' = IF StartStores(started) THEN r.mn ELSE mnStored
    /\ trace' = <<Ev("response", "start", BoolStr(started), 0)>>
                \o (IF StartStores(started)
                    THEN <<Alert("success"), SetItem(r.mn)>>
                    ELSE <<Alert("warning")>>)
                \o <<Return("refreshMasternodeData", "data")>>
    /\ UNCHANGED <<networkVars, mempool, controlPanel>>

\* ---------------------------------------------------------- startMasternode
\* Faulty variant: the view-only check is missing.
StartRefusedNever(key) == FALSE

\* if (masterKey.isViewOnly) return createAlert(...)
StartRefused(key) == key.isViewOnly

StartMasternode ==
    /\ UNCHANGED <<networkVars, mempool, mnStored, controlPanel>>
    /\ IF ~mnStored.present
       THEN /\ trace' = <<Call("startMasternode")>>
            /\ UNCHANGED mnReqs
       ELSE IF ~masterKey.present
       THEN /\ trace' = <<Call("startMasternode"), Throw("TypeError", "masterKey")>>
            /\ UNCHANGED mnReqs
       ELSE IF StartRefused(masterKey)
       THEN /\ trace' = <<Call("startMasternode"), Alert("warning")>>
            /\ UNCHANGED mnReqs
       ELSE /\ BagCardinality(mnReqs) < MaxPolls
            /\ mnReqs' = mnReqs (+)
                  One(MnReq("startMasternode", "start", mnStored, FALSE))
            /\ trace' = <<Call("startMasternode"), Call("Masternode.start")>>

\* cMasternode.start() of startMasternode resolved.
StartMasternodeStarted(r, started) ==
    /\ r.fn = "startMasternode"
    /\ mnReqs' = mnReqs (-) One(r)
    /\ trace' = <<Ev("response", "start", BoolStr(started), 0),
                  Alert(IF started THEN "success" ELSE "warning")>>
    /\ UNCHANGED <<networkVars, mempool, mnStored, controlPanel>>

\* ------------------------------------------------------------------ govVote
\* Faulty variant: only a missing masternode is refused.
VoteAllowedUnlessMissing(status) == status # "MISSING"

\* await cMasternode.getStatus() !== "ENABLED": return
VoteAllowed(status) == status = "ENABLED"

\* govVote shows the popup.
GovVote ==
    /\ BagCardinality(mnReqs) < MaxPolls
    /\ mnReqs' = mnReqs (+) One(MnReq("govVote", "popup", NoMasternode, FALSE))
    /\ trace' = <<Call("govVote"), Call("confirmPopup")>>
    /\ UNCHANGED <<networkVars, mempool, mnStored, controlPanel>>

\* The popup resolved with answer: on true the stored masternode is polled.
GovVotePopup(r, answer) ==
    /\ r.fn = "govVote"
    /\ r.stage = "popup"
    /\ UNCHANGED <<networkVars, mempool, mnStored, controlPanel>>
    /\ LET popup == Ev("response", "confirmPopup", BoolStr(answer), 0)
       IN
       IF ~answer
       THEN /\ mnReqs' = mnReqs (-) One(r)
            /\ trace' = <<popup>>
       ELSE IF mnStored.present
       THEN /\ mnReqs' = (mnReqs (-) One(r)) (+)
                  One(MnReq("govVote", "status", mnStored, FALSE))
            /\ trace' = <<popup, Call("Masternode.getStatus")>>
       ELSE /\ mnReqs' = mnReqs (-) One(r)
            /\ trace' = <<popup, Alert("warning")>>

\* getStatus resolved.
GovVoteStatus(r, status) ==
    /\ r.fn = "govVote"
    /\ r.stage = "status"
    /\ UNCHANGED <<networkVars, mempool, mnStored, controlPanel>>
    /\ LET answer == Ev("response", "getStatus", status, 0)
       IN
       IF VoteAllowed(status)
       THEN /\ mnReqs' = (mnReqs (-) One(r)) (+)
                  One(MnReq("govVote", "vote", r.mn, FALSE))
            /\ trace' = <<answer, Call("Masternode.vote")>>
       ELSE /\ mnReqs' = mnReqs (-) One(r)
            /\ trace' = <<answer, Alert("warning")>>

\* What Masternode.vote resolves with.
VoteResults == {"Voted successfully", "Error voting :",
                "Failure to verify signature.", "other"}

\* vote resolved.
GovVoteVoted(r, result) ==
    /\ r.fn = "govVote"
    /\ r.stage = "vote"
    /\ mnReqs' = mnReqs (-) One(r)
    /\ trace' = <<Ev("response", "vote", result, 0),
                  Alert(IF result = "Voted successfully" THEN "success"
                        ELSE "warning")>>
    /\ UNCHANGED <<networkVars, mempool, mnStored, controlPanel>>

\* The awaited call of a Masternode method rejects: the function rejects.
MasternodeCallFails(r) ==
    /\ BagIn(r, mnReqs)
    /\ r.stage \in {"data", "start", "status", "vote"}
    /\ mnReqs' = mnReqs (-) One(r)
    /\ trace' = <<Throw(r.fn, r.stage)>>
    /\ UNCHANGED <<networkVars, mempool, mnStored, controlPanel>>

\* ------------------------------------------------ the staking-rewards display
\* A write to a style or innerHTML of the page; n is the number shown.
Dom(name, value, n) == Ev("dom", name, value, n)

GuiCall(fCallback) == Ev("call", "updateStakingRewardsGUI", BoolStr(fCallback), 0)

RECURSIVE TotalAmount(_)
TotalAmount(rewards) ==
    IF rewards = <<>> THEN 0 ELSE Head(rewards).amount + TotalAmount(Tail(rewards))

\* Faulty variant: an empty list asks the explorer whoever called.
GuiRequestsAlways(fCallback, rewards) == Len(rewards) = 0

\* updateStakingRewardsGUI asks for rewards: the list is empty and the call
\* is not a network callback.
GuiRequests(fCallback, rewards) == Len(rewards) = 0 /\ ~fCallback

\* The top-level getStakingRewards up to its first await: the guard, the
\* load-more icon dimmed, nHeight, the key derivation begun.
TopGuard == enabled /\ masterKey.present

TopStartReqs(rewards, reqs) ==
    IF TopGuard
    THEN reqs (+) One(RewardReq("key", masterKey.isHD,
                                RequestTo(LastHeight(rewards))))
    ELSE reqs

TopStartTrace ==
    <<Call("getStakingRewards")>> \o
    (IF TopGuard
     THEN <<Dom("domGuiStakingLoadMoreIcon", "opacity", 5)>>
     ELSE <<Return("getStakingRewards", "undefined")>>)

\* updateStakingRewardsGUI(fCallback) over the list `rewards`: the pending
\* calls after it, and its effects.
GuiReqs(fCallback, rewards, reqs) ==
    IF GuiRequests(fCallback, rewards) THEN TopStartReqs(rewards, reqs) ELSE reqs

GuiTrace(fCallback, rewards) ==
    <<GuiCall(fCallback)>> \o
    (IF Len(rewards) = 0
     THEN (IF GuiRequests(fCallback, rewards) THEN TopStartTrace ELSE <<>>)
     ELSE <<Dom("domStakingRewardsTitle", "innerHTML", TotalAmount(rewards)),
            Dom("domStakingRewardsList", "innerHTML", Len(rewards))>>)

\* The user opens or refreshes the staking-rewards display.
UpdateStakingRewardsGUI ==
    /\ topReqs' = GuiReqs(FALSE, moduleRewards, topReqs)
    /\ BagCardinality(topReqs') <= MaxInFlight
    /\ trace' = GuiTrace(FALSE, moduleRewards)
    /\ UNCHANGED <<walletVars, infoVars, enabled, masterKey, blocks, rewardVars,
                   utxoVars, blockReqs, sendReqs, moduleRewards, history>>

\* The user presses "load more": the top-level getStakingRewards itself.
GetStakingRewardsTopCall ==
    /\ topReqs' = TopStartReqs(moduleRewards, topReqs)
    /\ BagCardinality(topReqs') <= MaxInFlight
    /\ trace' = TopStartTrace
    /\ UNCHANGED <<walletVars, infoVars, enabled, masterKey, blocks, rewardVars,
                   utxoVars, blockReqs, sendReqs, moduleRewards, history>>

\* getxpub / getAddress resolved: the request goes out.
GetStakingRewardsTopFetch(r) ==
    /\ BagIn(r, topReqs)
    /\ r.stage = "key"
    /\ topReqs' = (topReqs (-) One(r)) (+) One(RewardReq("fetch", r.isHD, r.to))
    /\ trace' = <<Fetch(IF r.isHD THEN "xpub" ELSE "address", r.to)>>
    /\ UNCHANGED <<walletVars, infoVars, enabled, masterKey, blocks, rewardVars,
                   utxoVars, blockReqs, sendReqs, moduleRewards, history>>

\* The explorer answered; hasTxs is whether the answer holds `transactions`.
\* With transactions the list grows and the display is refreshed as a
\* network callback; without, the load-more button is hidden.
GetStakingRewardsTopResponse(r, hasTxs) ==
    /\ BagIn(r, topReqs)
    /\ r.stage = "fetch"
    /\ LET page == ExplorerPage(r.to)
           rewards == UpdateRewards(moduleRewards, page, MapPaths(r.isHD))
       IN  IF hasTxs
           THEN /\ moduleRewards' = rewards
                /\ topReqs' = GuiReqs(TRUE, rewards, topReqs (-) One(r))
                /\ trace' =
                      (IF Len(page) # PageSize
                       THEN <<Dom("domGuiStakingLoadMore", "display", 0)>>
                       ELSE <<>>)
                      \o <<Dom("domGuiStakingLoadMoreIcon", "opacity", 10)>>
                      \o GuiTrace(TRUE, rewards)
           ELSE /\ moduleRewards' = moduleRewards
                /\ topReqs' = topReqs (-) One(r)
                /\ trace' = <<Dom("domGuiStakingLoadMore", "display", 0),
                              Dom("domGuiStakingLoadMoreIcon", "opacity", 10)>>
    /\ UNCHANGED <<walletVars, infoVars, enabled, masterKey, blocks, rewardVars,
                   utxoVars, blockReqs, sendReqs, history>>

\* The key derivation or the request failed: the call rejects.
GetStakingRewardsTopFail(r) ==
    /\ BagIn(r, topReqs)
    /\ topReqs' = topReqs (-) One(r)
    /\ trace' = <<Throw("getStakingRewards", r.stage)>>
    /\ UNCHANGED <<walletVars, infoVars, enabled, masterKey, blocks, rewardVars,
                   utxoVars, blockReqs, sendReqs, moduleRewards, history>>

\* ------------------------------------------------------- specifications
InitNetwork ==
    /\ enabled = TRUE
    /\ blocks = 0
    /\ arrRewards = <<>>
    /\ isSyncing = FALSE
    /\ utxoPc = EmptyBag
    /\ blockReqs = 0
    /\ rewardReqs = EmptyBag
    /\ sendReqs = EmptyBag
    /\ seqCalls = TRUE
    /\ infoReqs = EmptyBag
    /\ lastWallet = 0
    /\ moduleRewards = <<>>
    /\ topReqs = EmptyBag
    /\ mnReqs = EmptyBag
    /\ trace = <<>>

InitNoWallet ==
    /\ mempool = {}
    /\ mnStored = NoMasternode
    /\ controlPanel = "none"

\* The staking-reward list against every history of the explorer.
InitRewards ==
    /\ InitNetwork
    /\ InitNoWallet
    /\ masterKey \in {k \in Keys : ~k.isViewOnly /\ ~k.isHardwareWallet}
    /\ history \in Histories

NextRewards ==
    \/ GetStakingRewardsCall
    \/ \E r \in BagToSet(rewardReqs) : GetStakingRewardsFetch(r)
    \/ \E r \in BagToSet(rewardReqs), hasTxs \in BOOLEAN :
          GetStakingRewardsResponse(r, hasTxs)
    \/ \E r \in BagToSet(rewardReqs) : GetStakingRewardsFail(r)
    \/ \E key \in {k \in Keys : ~k.isViewOnly /\ ~k.isHardwareWallet} \cup {NoKey} :
          SetMasterKey(key)
    \/ \E kind \in TxKinds \ {"none"}, h \in TxHeights : ExplorerNewTx(kind, h)
    \/ Disable
    \/ Enable

SpecRewards == InitRewards /\ [][NextRewards]_vars

\* The staking-rewards display of global.js over the top-level
\* getStakingRewards, against every history of the explorer; the wallet may
\* lose its key and the network may be disabled while calls are pending.
NextGui ==
    \/ UpdateStakingRewardsGUI
    \/ GetStakingRewardsTopCall
    \/ \E r \in BagToSet(topReqs) : GetStakingRewardsTopFetch(r)
    \/ \E r \in BagToSet(topReqs), hasTxs \in BOOLEAN :
          GetStakingRewardsTopResponse(r, hasTxs)
    \/ \E r \in BagToSet(topReqs) : GetStakingRewardsTopFail(r)
    \/ SetMasterKey(NoKey)
    \/ Disable

SpecGui == InitRewards /\ [][NextGui]_vars

\* The network backend: toggling, block count, UTXO fetch, broadcast.
Init ==
    /\ InitNetwork
    /\ InitNoWallet
    /\ masterKey \in Keys \cup {NoKey}
    /\ history = <<>>

\* getUTXOFullInfo against every answer of the explorer, at every cached
\* block height.
InitUtxoInfo ==
    /\ enabled = TRUE
    /\ blocks \in 0..MaxHeight
    /\ arrRewards = <<>>
    /\ isSyncing = FALSE
    /\ utxoPc = EmptyBag
    /\ blockReqs = 0
    /\ rewardReqs = EmptyBag
    /\ sendReqs = EmptyBag
    /\ seqCalls = TRUE
    /\ infoReqs = EmptyBag
    /\ lastWallet = 0
    /\ moduleRewards = <<>>
    /\ topReqs = EmptyBag
    /\ mnReqs = EmptyBag
    /\ trace = <<>>
    /\ InitNoWallet
    /\ masterKey \in Keys \cup {NoKey}
    /\ history = <<>>

NextUtxoInfo ==
    \/ \E cUTXO \in ListedUTXOs : GetUTXOFullInfoCall(cUTXO)
    \/ \E cUTXO \in ListedUTXOs, cTx \in TxSpecifics :
          GetUTXOFullInfoResponse(cUTXO, cTx)
    \/ \E cUTXO \in ListedUTXOs : GetUTXOFullInfoFail(cUTXO)
    \/ \E key \in Keys \cup {NoKey} : SetMasterKey(key)

SpecUtxoInfo == InitUtxoInfo /\ [][NextUtxoInfo]_vars

\* The UTXO synchronisation alone, with every await settling in the end: a
\* key derivation resolves or rejects, a request is answered or fails.
NextSync ==
    \/ Enable
    \/ \E key \in Keys \cup {NoKey} : SetMasterKey(key)
    \/ RefreshChainData
    \/ \E reported \in 0..MaxHeight : GetBlockCountResponse(reported)
    \/ GetBlockCountFail
    \/ GetUTXOsCall
    \/ GetUTXOsFetch
    \/ GetUTXOsResponse
    \/ \E pc \in {"key", "fetch"} : GetUTXOsFail(pc)

SpecSync ==
    /\ Init
    /\ [][NextSync]_vars
    /\ WF_vars(GetUTXOsFetch)
    /\ WF_vars(GetUTXOsResponse \/ \E pc \in {"key", "fetch"} : GetUTXOsFail(pc))

\* The wallet glue of global.js over the mempool and local storage.
StoredMasternode == [present |-> TRUE, collateralTxId |-> 1, outidx |-> 0,
                     walletPrivateKeyPath |-> "legacy"]

InitWallet ==
    /\ InitNetwork
    /\ masterKey \in Keys \cup {NoKey}
    /\ mempool \in SUBSET UtxoUniverse
    /\ mnStored \in {NoMasternode, StoredMasternode}
    /\ controlPanel = "none"
    /\ history = <<>>

NextWallet ==
    \/ \E ins \in SUBSET GetConfirmed(mempool), p1 \in Paths, p2 \in Paths :
          CreateMasternodeCall(ins, p1, p2)
    \/ \E r \in BagToSet(sendReqs), resp \in SendResponses :
          CreateMasternodeSent(r, resp)
    \/ \E r \in BagToSet(sendReqs) : CreateMasternodeSendFail(r)
    \/ Enable

SpecWallet == InitWallet /\ [][NextWallet]_vars

\* The masternode functions of global.js over wallets that hold, or lack,
\* collaterals; the stored masternode may be left from an earlier session.
MasternodeUtxos ==
    {UTXO(1, 0, CollateralInSats, "CONFIRMED", "p1"),
     UTXO(3, 1, 4000, "CONFIRMED", "p1"),
     UTXO(5, 0, CollateralInSats, "CONFIRMED", "p2"),
     UTXO(6, 0, CollateralInSats, "PENDING", "p2")}

InitMasternode ==
    /\ InitNetwork
    /\ masterKey \in Keys \cup {NoKey}
    /\ mempool \in SUBSET MasternodeUtxos
    /\ mnStored \in {NoMasternode, StoredMasternode}
    /\ controlPanel = "none"
    /\ history = <<>>

NextMasternode ==
    \/ \E key \in Keys \cup {NoKey} : SetMasterKey(key)
    \/ UpdateMasternodeTab
    \/ DestroyMasternode
    \/ \E path \in Paths : ImportMasternode(path)
    \/ \E r \in BagToSet(mnReqs) : ImportMasternodeTab(r)
    \/ \E r \in BagToSet(mnReqs), d \in MasternodeData :
          RefreshMasternodeData(r, d)
    \/ \E r \in BagToSet(mnReqs), started \in BOOLEAN :
          RefreshMasternodeStarted(r, started)
    \/ StartMasternode
    \/ \E r \in BagToSet(mnReqs), started \in BOOLEAN :
          StartMasternodeStarted(r, started)
    \/ \E r \in BagToSet(mnReqs) : MasternodeCallFails(r)

SpecMasternode == InitMasternode /\ [][NextMasternode]_vars

\* Voting, while the stored masternode is polled and may be destroyed.
NextVote ==
    \/ GovVote
    \/ \E r \in BagToSet(mnReqs), answer \in BOOLEAN : GovVotePopup(r, answer)
    \/ \E r \in BagToSet(mnReqs), status \in MasternodeStatuses :
          GovVoteStatus(r, status)
    \/ \E r \in BagToSet(mnReqs), result \in VoteResults :
          GovVoteVoted(r, result)
    \/ \E r \in BagToSet(mnReqs) : MasternodeCallFails(r)
    \/ DestroyMasternode
    \/ UpdateMasternodeTab
    \/ \E r \in BagToSet(mnReqs), d \in MasternodeData :
          RefreshMasternodeData(r, d)
    \/ \E r \in BagToSet(mnReqs), started \in BOOLEAN :
          RefreshMasternodeStarted(r, started)

SpecVote == InitMasternode /\ [][NextVote]_vars

\* Starting and creating masternodes under every kind of wallet.
InitStart ==
    /\ InitNetwork
    /\ masterKey \in Keys \cup {NoKey}
    /\ mempool \in SUBSET {UTXO(1, 0, CollateralInSats, "CONFIRMED", "p1"),
                           UTXO(5, 0, CollateralInSats, "CONFIRMED", "p2")}
    /\ mnStored \in {NoMasternode, StoredMasternode}
    /\ controlPanel = "none"
    /\ history = <<>>

NextStart ==
    \/ \E key \in Keys \cup {NoKey} : SetMasterKey(key)
    \/ StartMasternode
    \/ \E r \in BagToSet(mnReqs), started \in BOOLEAN :
          StartMasternodeStarted(r, started)
    \/ UpdateMasternodeTab
    \/ \E r \in BagToSet(mnReqs), d \in MasternodeData :
          RefreshMasternodeData(r, d)
    \/ \E r \in BagToSet(mnReqs), started \in BOOLEAN :
          RefreshMasternodeStarted(r, started)
    \/ \E r \in BagToSet(mnReqs) : MasternodeCallFails(r)
    \/ \E ins \in SUBSET GetConfirmed(mempool) :
          CreateMasternodeCall(ins, "p1", "p2")
    \/ \E r \in BagToSet(sendReqs), resp \in SendResponses :
          CreateMasternodeSent(r, resp)
    \/ \E r \in BagToSet(sendReqs) : CreateMasternodeSendFail(r)

SpecStart == InitStart /\ [][NextStart]_vars

Next ==
    \/ Enable
    \/ Disable
    \/ Toggle
    \/ \E key \in Keys \cup {NoKey} : SetMasterKey(key)
    \/ RefreshChainData
    \/ GetBlockCountCall
    \/ \E reported \in 0..MaxHeight : GetBlockCountResponse(reported)
    \/ GetBlockCountFail
    \/ GetUTXOsCall
    \/ GetUTXOsFetch
    \/ GetUTXOsResponse
    \/ \E pc \in {"key", "fetch"} : GetUTXOsFail(pc)
    \/ SendTransactionCall
    \/ \E r \in BagToSet(sendReqs), resp \in SendResponses :
          SendTransactionResponse(r, resp)
    \/ \E r \in BagToSet(sendReqs) : SendTransactionFail(r)
    \/ \E m \in Capabilities \cup DOMAIN NetworkStubs : BareSubclassCall(m)
    \/ ConstructNetwork

Spec == Init /\ [][Next]_vars

\* ------------------------------------------------------------------ claims
IsPrefix(s, t) == Len(s) <= Len(t) /\ SubSeq(t, 1, Len(s)) = s

ReturnedRewards == trace = <<Return("getStakingRewards", "arrRewards")>>

C2_AppendOnly ==
    [][trace' = <<Call("setMasterKey")>>
       \/ IsPrefix(arrRewards, arrRewards')]_vars

\* Overlapping calls have appended to a list that held a reward already.
C2_Witness ==
    ~seqCalls /\ ReturnedRewards /\ Len(arrRewards) >= 3

ReportedHeights(tr) ==
    {tr[i].n : i \in {k \in 1..Len(tr) :
                        tr[k].kind = "response" /\ tr[k].name = "getBlockCount"}}

\* C4: the cached block height starts at 0 and never decreases; a response
\* changes it only when the reported height is greater, to exactly that
\* height; a lower or equal height or a failed request leaves it unchanged.
C4_BlockCountMonotone ==
    /\ blocks = 0
    /\ [][/\ blocks' >= blocks
          /\ blocks' # blocks => ReportedHeights(trace') # {}
          /\ \A h \in ReportedHeights(trace') :
                blocks' = (IF h > blocks THEN h ELSE blocks)
          /\ HasEntry(trace', Throw("getBlockCount", "")) => blocks' = blocks]_vars

\* A response with a lower height arrived after the height had risen.
C4_Witness ==
    blocks = 2 /\ trace = <<Response("getBlockCount", "", 1)>>

Position(tr, e) == CHOOSE i \in 1..Len(tr) : tr[i] = e

C6_TransactionSentOnce ==
    [][\A i \in 1..Len(trace') :
          (trace'[i].kind = "response" /\ trace'[i].name = "sendTransaction") =>
             /\ Count(trace', "emit", "transaction-sent") = 1
             /\ Count(trace', "return", "sendTransaction") = 1
             /\ IF trace'[i].n = 64
                THEN /\ HasEntry(trace', Emit("transaction-sent", "true"))
                     /\ HasEntry(trace', Return("sendTransaction", "true"))
                ELSE /\ HasEntry(trace', Emit2("transaction-sent", "false",
                                               trace'[i].arg))
                     /\ HasEntry(trace', Return("sendTransaction", "false"))]_vars

\* A result that is no transaction id was answered with false.
C6_Witness ==
    /\ HasEntry(trace, Response("sendTransaction", "undefined", 10))
    /\ HasEntry(trace, Return("sendTransaction", "false"))

MustBeImplemented ==
    [getBlockCount |-> "getBlockCount must be implemented",
     getUTXOs |-> "getUTXOs must be implemented",
     sendTransaction |-> "sendTransaction must be implemented",
     getStakingRewards |-> "getStakingRewards must be implemented"]

\* C7: constructing Network throws, and each of the four capabilities called
\* on a subclass that does not override it throws 'must be implemented'.
C7_MustOverride ==
    /\ HasEntry(trace, Ev("new", "Network", "", 0))
          => HasEntry(trace, Throw("Error", "Initializing virtual class"))
    /\ \A m \in Capabilities :
          HasEntry(trace, Ev("call-bare", m, "", 0))
             => HasEntry(trace, Throw("Error", MustBeImplemented[m]))

\* C8: the network starts enabled; enable, disable and toggle set the state;
\* 'network-toggle' is emitted once with the new value exactly when the state
\* changes.
C8_ToggleEvent ==
    /\ enabled = TRUE
    /\ [][/\ Count(trace', "emit", "network-toggle")
                = (IF enabled' # enabled THEN 1 ELSE 0)
          /\ enabled' # enabled
                => HasEntry(trace', Emit("network-toggle", BoolStr(enabled')))
          /\ HasEntry(trace', Call("enable")) => enabled'
          /\ HasEntry(trace', Call("disable")) => ~enabled'
          /\ HasEntry(trace', Call("toggle")) => enabled' = ~enabled]_vars

\* disable() on a disabled network emitted nothing.
C8_Witness ==
    ~enabled /\ trace = <<Call("disable")>>

\* C9: no step issues a request to the explorer while the network is
\* disabled.
C9_NoFetchWhileDisabled ==
    [][(\E i \in 1..Len(trace') : trace'[i].kind = "fetch") => enabled]_vars

\* The calls of createMasternode that resume in a step.
ResumedCreate == {r \in BagToSet(sendReqs) :
                    r.caller = "createMasternode" /\ sendReqs' = sendReqs (-) One(r)}

\* C10: createMasternode touches the mempool only after sendTransaction
\* returned true: then every input is gone and the change (vout 0) and the
\* collateral (vout 1) are in it as PENDING under the new transaction id;
\* otherwise the mempool stays as it is.
C10_OptimisticUpdate ==
    [][/\ HasEntry(trace', Call("createMasternode")) => mempool' = mempool
       /\ \A r \in ResumedCreate :
             IF HasEntry(trace', Return("sendTransaction", "true"))
             THEN mempool' =
                     {u \in mempool : \A tx \in r.inputs :
                                         ~(u.id = tx.id /\ u.vout = tx.vout)}
                     \cup {UTXO(FutureTxid(r.inputs), 0, r.nChange, "PENDING",
                                r.changePath),
                           UTXO(FutureTxid(r.inputs), 1, CollateralInSats,
                                "PENDING", r.collateralPath)}
             ELSE mempool' = mempool]_vars

\* A broadcast succeeded: the spent input is gone, both outputs are pending.
C10_Witness ==
    /\ HasEntry(trace, Return("sendTransaction", "true"))
    /\ HasEntry(trace, Ev("resume", "createMasternode", "", 0))
    /\ \E u \in mempool : u.id = FutureTxid({UTXO(2, 0, CollateralInSats + 5000, "CONFIRMED", "p2")})
                           /\ u.vout = 1 /\ u.status = "PENDING"
    /\ \A u \in mempool : u.id # 2

\* The tx-specific answers handled in a step, with their requests.
FullInfoAnswers(tr) ==
    {tr[i].value : i \in {k \in 1..Len(tr) :
                             tr[k].kind = "response" /\ tr[k].name = "tx-specific"}}

\* The UTXOs built in a step.
BuiltUTXOs(tr) ==
    {tr[i].value : i \in {k \in 1..Len(tr) :
                             /\ tr[k].kind = "return"
                             /\ tr[k].name = "getUTXOFullInfo"
                             /\ tr[k].arg # "null"}}

\* C11: a UTXO built by getUTXOFullInfo has status PENDING or CONFIRMED,
\* PENDING exactly when the transaction has fewer than 1 confirmation;
\* isDelegate is true exactly for a 'coldstake' output; an output that is
\* neither 'coldstake' nor 'pubkeyhash' yields null and no UTXO.
C11_FullInfoStatus ==
    [][\A a \in FullInfoAnswers(trace') :
          ~(\E i \in 1..Len(trace') : trace'[i].kind = "throw") =>
             LET type == a.cTx.vout[a.cUTXO.vout + 1].type
             IN  IF type \notin {"coldstake", "pubkeyhash"}
                 THEN /\ HasEntry(trace', Return("getUTXOFullInfo", "null"))
                      /\ BuiltUTXOs(trace') = {}
                 ELSE /\ ~HasEntry(trace', Return("getUTXOFullInfo", "null"))
                      /\ Cardinality(BuiltUTXOs(trace')) = 1
                      /\ \A u \in BuiltUTXOs(trace') :
                            /\ u.status \in {"PENDING", "CONFIRMED"}
                            /\ u.status = "PENDING" <=> a.cTx.confirmations < 1
                            /\ u.isDelegate <=> type = "coldstake"]_vars

\* A cold-stake output with one confirmation was built as CONFIRMED.
C11_Witness ==
    /\ \E a \in FullInfoAnswers(trace) : a.cTx.confirmations = 1
    /\ \E u \in BuiltUTXOs(trace) : u.isDelegate /\ u.status = "CONFIRMED"

\* The pending calls that a step adds.
Added(reqs, reqsNext) ==
    {r \in BagToSet(reqsNext) : CopiesIn(r, reqsNext) > CopiesIn(r, reqs)}

\* The pending calls that a step resumes.
Resumed(reqs, reqsNext) ==
    {r \in BagToSet(reqs) : CopiesIn(r, reqsNext) < CopiesIn(r, reqs)}

SetItems(tr) ==
    {tr[i].value : i \in {k \in 1..Len(tr) : tr[k].kind = "setItem"}}

Answered(tr, name, arg) == HasEntry(tr, Ev("response", name, arg, 0))

Threw(tr) == \E i \in 1..Len(tr) : tr[i].kind = "throw"

\* C12: the stored masternode is written only by a refreshMasternodeData
\* that was answered ENABLED or PRE_ENABLED, or whose start() (tried only for
\* a MISSING masternode in a wallet that is not view-only) succeeded; an
\* answer REMOVED, a failed start or a connection problem leaves it as it is.
C12_StoredOnlyByRefresh ==
    [][/\ (SetItems(trace') # {} \/ (mnStored'.present /\ mnStored' # mnStored)) =>
             \E r \in Resumed(mnReqs, mnReqs') :
                /\ r.fn = "refreshMasternodeData"
                /\ mnStored' = r.mn
                /\ SetItems(trace') = {r.mn}
                /\ \/ /\ r.stage = "data"
                      /\ \/ Answered(trace', "getFullData", "ENABLED")
                         \/ Answered(trace', "getFullData", "PRE_ENABLED")
                   \/ /\ r.stage = "start"
                      /\ Answered(trace', "start", "true")
       /\ \A r \in Added(mnReqs, mnReqs') :
             (r.fn = "refreshMasternodeData" /\ r.stage = "start") =>
                /\ Answered(trace', "getFullData", "MISSING")
                /\ masterKey.present /\ ~masterKey.isViewOnly
       /\ \A r \in Resumed(mnReqs, mnReqs') :
             (/\ r.fn = "refreshMasternodeData"
              /\ \/ Answered(trace', "getFullData", "REMOVED")
                 \/ Answered(trace', "getFullData", "EXPIRED")
                 \/ Answered(trace', "getFullData", "")
                 \/ Answered(trace', "getFullData", "null")
                 \/ Answered(trace', "start", "false")
                 \/ Threw(trace'))
                => (mnStored' = mnStored /\ SetItems(trace') = {})]_vars

\* A masternode that was missing has been started and stored.
C12_Witness ==
    /\ Answered(trace, "start", "true")
    /\ SetItems(trace) = {mnStored}
    /\ mnStored.collateralTxId = 5

\* C13: destroyMasternode removes the stored masternode and does nothing
\* without one; and no status poll of the stored masternode (a
\* refreshMasternodeData that importMasternode did not call) brings a
\* removed masternode back.
C13_DestroyedStaysDestroyed ==
    [][/\ HasEntry(trace', Call("destroyMasternode")) =>
             IF mnStored.present THEN ~mnStored'.present
             ELSE UNCHANGED <<networkVars, walletVars>>
       /\ (~mnStored.present /\ mnStored'.present) =>
             \E r \in Resumed(mnReqs, mnReqs') : r.fAlert]_vars

\* C14: at most one getUTXOs call is between its guards and its end, and a
\* call made meanwhile, directly or by getBlockCount, starts nothing, issues
\* no request and emits no 'utxo' event.
C14_SingleUtxoFetch ==
    /\ [](BagCardinality(utxoPc) <= 1)
    /\ [][(utxoPc # EmptyBag /\ HasEntry(trace', Call("getUTXOs"))) =>
             /\ UNCHANGED utxoVars
             /\ Count(trace', "fetch", "utxo") = 0
             /\ Count(trace', "emit", "utxo") = 0]_vars

\* A call returned at once while the request of another was out.
C14_Witness ==
    /\ utxoPc = One("fetch")
    /\ trace = <<Call("getUTXOs"), Return("getUTXOs", "undefined")>>

\* C15: whenever isSyncing is set it is cleared again; a call that ends,
\* with the event or in the catch, clears it; a call without a master key
\* returns at once and leaves it as it is.
C15_SyncingClears ==
    /\ isSyncing ~> ~isSyncing
    /\ [][/\ (HasEntry(trace', Return("getUTXOs", "undefined"))
                 /\ utxoPc' # utxoPc) => ~isSyncing'
          /\ (HasEntry(trace', Call("getUTXOs")) /\ ~masterKey.present) =>
                /\ UNCHANGED utxoVars
                /\ Count(trace', "fetch", "utxo") = 0
                /\ trace'[1] = Call("getUTXOs") =>
                      trace' = <<Call("getUTXOs"),
                                 Return("getUTXOs", "undefined")>>]_vars

\* A request of getUTXOs failed and the flag is clear again.
C15_Witness ==
    /\ ~isSyncing
    /\ HasEntry(trace, Ev("catch", "getUTXOs", "fetch", 0))

\* C16: a failure in getBlockCount, getUTXOs or sendTransaction calls
\* error(), which leaves the network disabled; it raises the warning and
\* emits 'network-toggle' exactly when the network was enabled, and changes
\* nothing when it was disabled.
C16_ErrorAlertsOnce ==
    [][/\ (\/ HasEntry(trace', Throw("getBlockCount", ""))
           \/ Count(trace', "catch", "getUTXOs") > 0
           \/ HasEntry(trace', Return("sendTransaction", "undefined")))
             => HasEntry(trace', Call("error"))
       /\ HasEntry(trace', Call("error")) =>
             /\ ~enabled'
             /\ Count(trace', "alert", "warning") = (IF enabled THEN 1 ELSE 0)
             /\ Count(trace', "emit", "network-toggle")
                   = (IF enabled THEN 1 ELSE 0)
             /\ ~enabled => UNCHANGED <<enabled, masterKey, blocks, arrRewards,
                                        walletVars>>
       /\ Count(trace', "alert", "warning") > 0 => HasEntry(trace', Call("error"))]_vars

\* A request failed while the network was disabled: no warning.
C16_Witness ==
    /\ ~enabled
    /\ trace = <<Call("error"), Throw("getBlockCount", "")>>

\* C17: when updateMasternodeTab runs with a wallet loaded and the collateral
\* of the stored masternode is not among the confirmed UTXOs, the stored
\* masternode is removed and the control panel is hidden.
C17_MissingCollateralRemoved ==
    [][(/\ HasEntry(trace', Call("updateMasternodeTab"))
        /\ ~HasEntry(trace', Call("destroyMasternode"))
        /\ masterKey.present
        /\ mnStored.present
        /\ ~(\E u \in GetConfirmed(mempool) :
                u.id = mnStored.collateralTxId /\ u.vout = mnStored.outidx))
          => (~mnStored'.present /\ controlPanel' = "none")]_vars

\* The paths selected in a step of importMasternode.
SelectedPaths(tr) ==
    {tr[i].arg : i \in {k \in 1..Len(tr) :
                          tr[k].kind = "input" /\ tr[k].name = "domMnTxId"}}

NewMasternodes(tr) ==
    {tr[i].value : i \in {k \in 1..Len(tr) :
                            tr[k].kind = "new" /\ tr[k].name = "Masternode"}}

\* The confirmed UTXOs that may serve as the collateral of an import.
Suitable(path) ==
    {u \in GetConfirmed(mempool) :
        /\ u.sats = CollateralInSats
        /\ masterKey.isHD => u.path = path}

\* C18: a masternode that importMasternode creates has as collateral a
\* confirmed UTXO of exactly collateralInSats, the first such in a non-HD
\* wallet, one at the selected path in an HD wallet; without such a UTXO the
\* import ends with a warning, polls nothing and stores nothing.
C18_ImportCollateral ==
    [][\A path \in SelectedPaths(trace') :
          /\ \A m \in NewMasternodes(trace') :
                \E u \in Suitable(path) :
                   /\ m.collateralTxId = u.id /\ m.outidx = u.vout
                   /\ ~masterKey.isHD =>
                         \A v \in Suitable(path) : v = u \/ Before(u, v)
          /\ Suitable(path) = {} =>
                /\ HasEntry(trace', Alert("warning"))
                /\ NewMasternodes(trace') = {}
                /\ UNCHANGED <<mnReqs, mnStored>>]_vars

\* C19: Masternode.start is called only in a wallet that is not view-only;
\* createMasternode in a view-only wallet sends nothing and changes neither
\* the mempool nor local storage; startMasternode without a stored
\* masternode does nothing.
C19_ViewOnlyStartsNothing ==
    [][/\ HasEntry(trace', Call("Masternode.start")) =>
             masterKey.present /\ ~masterKey.isViewOnly
       /\ (HasEntry(trace', Call("createMasternode"))
              /\ masterKey.present /\ masterKey.isViewOnly) =>
             /\ \A i \in 1..Len(trace') : trace'[i].kind # "fetch"
             /\ ~HasEntry(trace', Call("sendTransaction"))
             /\ UNCHANGED <<sendReqs, mempool, mnStored>>
       /\ (HasEntry(trace', Call("startMasternode")) /\ ~mnStored.present) =>
             /\ trace' = <<Call("startMasternode")>>
             /\ UNCHANGED <<networkVars, walletVars>>]_vars

\* startMasternode was refused in a view-only wallet with a stored masternode.
C19_Witness ==
    /\ masterKey.present /\ masterKey.isViewOnly
    /\ mnStored.present
    /\ trace = <<Call("startMasternode"), Alert("warning")>>

\* C20: Masternode.vote is called only by a govVote whose popup was
\* confirmed, that found a stored masternode, and whose getStatus has just
\* answered ENABLED; a declined popup, no stored masternode or any other
\* status ends govVote without a vote.
C20_VoteOnlyWhenEnabled ==
    [][/\ HasEntry(trace', Call("Masternode.vote")) =>
             /\ Answered(trace', "getStatus", "ENABLED")
             /\ \E r \in Resumed(mnReqs, mnReqs') :
                   /\ r.fn = "govVote" /\ r.stage = "status" /\ r.mn.present
                   /\ MnReq("govVote", "vote", r.mn, FALSE) \in Added(mnReqs, mnReqs')
       /\ \A r \in Added(mnReqs, mnReqs') :
             (r.fn = "govVote" /\ r.stage = "status") =>
                /\ Answered(trace', "confirmPopup", "true")
                /\ mnStored.present /\ r.mn = mnStored
       /\ \A r \in Added(mnReqs, mnReqs') :
             (r.fn = "govVote" /\ r.stage = "vote") =>
                HasEntry(trace', Call("Masternode.vote"))
       /\ (\/ Answered(trace', "confirmPopup", "false")
           \/ \E st \in MasternodeStatuses \ {"ENABLED"} :
                 Answered(trace', "getStatus", st))
             => /\ ~HasEntry(trace', Call("Masternode.vote"))
                /\ Added(mnReqs, mnReqs') = {}]_vars

\* The masternode is enabled and the vote went out.
C20_Witness ==
    trace = <<Ev("response", "getStatus", "ENABLED", 0), Call("Masternode.vote")>>

\* The pending calls that have not sent their request yet.
KeyStage(reqs) ==
    BagCardinality([r \in {q \in BagToSet(reqs) : q.stage = "key"} |->
                       CopiesIn(r, reqs)])

RewardFetches(tr) == Count(tr, "fetch", "xpub") + Count(tr, "fetch", "address")

\* C21: refreshing the staking-rewards display cannot loop.  A refresh that
\* is a network callback (fCallback true) never calls getStakingRewards and
\* leaves fewer calls pending than before it; a refresh by the user calls
\* getStakingRewards at most once and adds at most one pending call; a
\* pending call is added only by a step the user began; and a request to the
\* explorer goes out only by advancing one pending call, once.
C21_NoRequestLoop ==
    [][/\ HasEntry(trace', GuiCall(TRUE)) =>
             /\ Count(trace', "call", "getStakingRewards") = 0
             /\ BagCardinality(topReqs') = BagCardinality(topReqs) - 1
       /\ HasEntry(trace', GuiCall(FALSE)) =>
             /\ Count(trace', "call", "getStakingRewards") <= 1
             /\ BagCardinality(topReqs') <= BagCardinality(topReqs) + 1
             /\ RewardFetches(trace') = 0
       /\ BagCardinality(topReqs') > BagCardinality(topReqs) =>
             trace'[1] \in {GuiCall(FALSE), Call("getStakingRewards")}
       /\ RewardFetches(trace') <= 1
       /\ RewardFetches(trace') = 1 =>
             /\ KeyStage(topReqs') = KeyStage(topReqs) - 1
             /\ BagCardinality(topReqs') = BagCardinality(topReqs)]_vars

\* The explorer answered with transactions but no reward among them: the
\* display was refreshed as a callback over an empty list, and no call is
\* pending.
C21_Witness ==
    /\ HasEntry(trace, GuiCall(TRUE))
    /\ moduleRewards = <<>>
    /\ history # <<>>
    /\ topReqs = EmptyBag

====
